---- MODULE Spec2Model ----
(***************************************************************************)
(* Model of 425_project.ipynb: an autoencoder is trained on a train split, *)
(* embeddings are extracted for the train and the test split, each         *)
(* embedding matrix is clustered with K-Means and DBSCAN and scored, and   *)
(* the model and the results are saved.                                    *)
(*                                                                         *)
(* Numbers that the program computes in floating point are abstracted:     *)
(*   - a loss is 0 or 1 (the ends of the MSE range on [0,1] data) or NaN;  *)
(*   - the parameters are the number of optimizer steps taken, or NaN;     *)
(*   - the latent vector of a row is the term <<params, feature>>, so two  *)
(*     rows have the same embedding iff they have the same features;       *)
(*   - a quotient a / b is kept as the pair [num |-> a, den |-> b].        *)
(***************************************************************************)
EXTENDS Integers, Sequences, FiniteSets, TLC

VARIABLES
    X_train, y_train, X_test, y_test,   \* the two splits (lines 68-71)
    batch_size, num_epochs, n_clusters, \* configuration
    params,                             \* the autoencoder's parameters
    pc,                                 \* position of the run
    epoch, batches, total_loss, losses, \* locals of train_autoencoder
    seen, epochs_seen,                  \* per-batch (loss, rows) sums of the epoch(s)
    train_order, test_order,            \* index order of the extraction traversals
    train_embeddings, train_true_labels,
    test_embeddings, test_true_labels,
    kmeans_labels, dbscan_labels,       \* locals of the last evaluate_clustering call
    train_results, test_results,
    saved_model, saved_results,         \* the two output files
    error

vars == << X_train, y_train, X_test, y_test, batch_size, num_epochs, n_clusters,
           params, pc, epoch, batches, total_loss, losses, seen, epochs_seen,
           train_order, test_order, train_embeddings, train_true_labels,
           test_embeddings, test_true_labels, kmeans_labels, dbscan_labels,
           train_results, test_results, saved_model, saved_results, error >>

----------------------------------------------------------------------------
(* Bounds of the model.                                                     *)
RunRows      == 3   \* rows per split in the whole-run specification
RunEpochs    == 1   \* epochs in the whole-run specification
TrainRows    == 3   \* rows of the train split when train_autoencoder is checked
MaxEpochs    == 2   \* num_epochs when train_autoencoder is checked
MaxBatchSize == 2   \* batch_size is drawn from 1..MaxBatchSize
ExtractRows  == 3   \* rows of a split when get_embeddings is checked
EvalRows     == 5   \* rows when evaluate_clustering is checked
MaxLabel     == 1   \* true labels are 0..MaxLabel
MaxClusters  == 2   \* n_clusters is drawn from 2..MaxClusters
BlobRows     == 20  \* rows of the single-blob scenario

(* Program constants.                                                       *)
min_samples  == 5   \* DBSCAN(eps=3, min_samples=5)

NaN == -1                      \* a non-finite float
FeatureVals == {0, 1}          \* pixel / 255.0 lies in [0, 1]
Labels == 0..MaxLabel
FiniteLoss == {0, 1}           \* MSE of values in [0, 1] lies in [0, 1]
AllMetrics == {"silhouette", "davies_bouldin", "calinski_harabasz"}
None == << >>                  \* an Option is << >> or << v >>
Some(v) == << v >>

----------------------------------------------------------------------------
(* Helpers on sequences.                                                    *)
Range(s) == { s[i] : i \in DOMAIN s }
Min(a, b) == IF a <= b THEN a ELSE b
Identity(n) == [i \in 1..n |-> i]
Perms(n) == { f \in [1..n -> 1..n] : \A i, j \in 1..n : i # j => f[i] # f[j] }

RECURSIVE Concat(_)
Concat(ss) == IF ss = << >> THEN << >> ELSE Head(ss) \o Concat(Tail(ss))

----------------------------------------------------------------------------
(* DataLoader(dataset, batch_size, shuffle): the batches of one traversal,  *)
(* as index sequences; the last batch may be short (drop_last is False).    *)
RECURSIVE Batches(_, _)
Batches(order, bs) ==
    IF order = << >> THEN << >>
    ELSE LET k == Min(bs, Len(order))
         IN  << SubSeq(order, 1, k) >> \o Batches(SubSeq(order, k + 1, Len(order)), bs)

(* The index orders a traversal can take: a permutation when shuffle=True.  *)
Orders(n, shuffle) == IF shuffle THEN Perms(n) ELSE { Identity(n) }

(* model(data)[1]: the latent vector of one row under parameters p.         *)
Encode(p, x) == IF p = NaN THEN << NaN, NaN >> ELSE << p, x >>

(* criterion(recon, data).item(): data-dependent; NaN once params are NaN.  *)
LossOutcomes(p) == IF p = NaN THEN {NaN} ELSE FiniteLoss \cup {NaN}

(* optimizer.step(): a NaN loss back-propagates NaN into every parameter.   *)
Step(p, loss) == IF p = NaN \/ loss = NaN THEN NaN ELSE p + 1

(* float addition with NaN.                                                 *)
Add(a, b) == IF a = NaN \/ b = NaN THEN NaN ELSE a + b

(* float multiplication of a loss by a row count.                           *)
Mul(a, n) == IF a = NaN THEN NaN ELSE a * n

(* len(train_loader): the number of batches of one traversal.               *)
LenLoader(n, bs) == Len(Batches(Identity(n), bs))

----------------------------------------------------------------------------
(* train_autoencoder(model, train_loader, num_epochs)                       *)

(* A loop that would also stop once an epoch's loss has reached zero (the   *)
(* code has no such exit; C7 tells the two apart).                          *)
EarlyStopping ==
    epoch = num_epochs \/ (epoch >= 1 /\ losses[epoch].num = 0)

(* for epoch in range(num_epochs): the loop is left when the range is       *)
(* exhausted, and for no other reason.                                      *)
TrainingFinished == epoch = num_epochs

(* Top of an epoch: model.train(), total_loss = 0, and the loader starts a  *)
(* new shuffled traversal (train_loader has shuffle=True).                  *)
TrainEpochBegin ==
    /\ pc = "train"
    /\ ~TrainingFinished
    /\ \E order \in Orders(Len(X_train), TRUE) :
           batches' = Batches(order, batch_size)
    /\ total_loss' = 0
    /\ seen' = [wsum |-> 0, rows |-> 0]
    /\ pc' = "batch"
    /\ UNCHANGED << X_train, y_train, X_test, y_test, batch_size, num_epochs,
                    n_clusters, params, epoch, losses, epochs_seen,
                    train_order, test_order, train_embeddings, train_true_labels,
                    test_embeddings, test_true_labels, kmeans_labels, dbscan_labels,
                    train_results, test_results, saved_model, saved_results, error >>

(* One batch: forward, loss, backward, optimizer.step(), total_loss +=      *)
(* loss.item().  Nothing looks at the value of the loss.                    *)
TrainBatch ==
    /\ pc = "batch"
    /\ batches # << >>
    /\ \E loss \in LossOutcomes(params) :
           /\ params' = Step(params, loss)
           /\ total_loss' = Add(total_loss, loss)
           /\ seen' = [wsum |-> Add(seen.wsum, Mul(loss, Len(Head(batches)))),
                       rows |-> seen.rows + Len(Head(batches))]
    /\ batches' = Tail(batches)
    /\ UNCHANGED << X_train, y_train, X_test, y_test, batch_size, num_epochs,
                    n_clusters, pc, epoch, losses, epochs_seen,
                    train_order, test_order, train_embeddings, train_true_labels,
                    test_embeddings, test_true_labels, kmeans_labels, dbscan_labels,
                    train_results, test_results, saved_model, saved_results, error >>

(* After the last batch: avg_loss = total_loss / len(train_loader);         *)
(* losses.append(avg_loss).                                                 *)
TrainEpochEnd ==
    /\ pc = "batch"
    /\ batches = << >>
    /\ losses' = Append(losses, [num |-> total_loss,
                                 den |-> LenLoader(Len(X_train), batch_size)])
    /\ epochs_seen' = Append(epochs_seen, seen)
    /\ epoch' = epoch + 1
    /\ pc' = "train"
    /\ UNCHANGED << X_train, y_train, X_test, y_test, batch_size, num_epochs,
                    n_clusters, params, batches, total_loss, seen,
                    train_order, test_order, train_embeddings, train_true_labels,
                    test_embeddings, test_true_labels, kmeans_labels, dbscan_labels,
                    train_results, test_results, saved_model, saved_results, error >>

(* return losses; the caller plots them and goes on to the extraction.      *)
TrainReturn ==
    /\ pc = "train"
    /\ TrainingFinished
    /\ pc' = "extract_train"
    /\ UNCHANGED << X_train, y_train, X_test, y_test, batch_size, num_epochs,
                    n_clusters, params, epoch, batches, total_loss, losses, seen,
                    epochs_seen, train_order, test_order, train_embeddings,
                    train_true_labels, test_embeddings, test_true_labels,
                    kmeans_labels, dbscan_labels, train_results, test_results,
                    saved_model, saved_results, error >>

----------------------------------------------------------------------------
(* A loader built with drop_last=True would skip a short last batch (the    *)
(* code's loaders keep it; C6 tells the two apart).                         *)
BatchesDropLast(order, bs) ==
    LET b == Batches(order, bs)
    IN  IF b # << >> /\ Len(b[Len(b)]) < bs THEN SubSeq(b, 1, Len(b) - 1) ELSE b

(* for data, label in dataloader: every batch of the traversal.             *)
LoaderBatches(order, bs) == Batches(order, bs)

(* get_embeddings(model, dataloader, device): one forward pass per batch    *)
(* under torch.no_grad(), the batch outputs and the batch labels appended   *)
(* in the order the loader yields them, then stacked.                       *)
get_embeddings(p, X, Y, order, bs) ==
    LET bt == LoaderBatches(order, bs)
        embeddings == [b \in 1..Len(bt) |->
                          [j \in 1..Len(bt[b]) |-> Encode(p, X[bt[b][j]])]]
        labels == [b \in 1..Len(bt) |-> [j \in 1..Len(bt[b]) |-> Y[bt[b][j]]]]
    IN  [embeddings |-> Concat(embeddings), labels |-> Concat(labels)]

(* train_embeddings, train_true_labels = get_embeddings(model, train_loader) *)
(* train_loader shuffles (line 76).                                         *)
ExtractTrain ==
    /\ pc = "extract_train"
    /\ \E order \in Orders(Len(X_train), TRUE) :
           LET r == get_embeddings(params, X_train, y_train, order, batch_size)
           IN  /\ train_order' = order
               /\ train_embeddings' = r.embeddings
               /\ train_true_labels' = r.labels
    /\ pc' = "extract_test"
    /\ UNCHANGED << X_train, y_train, X_test, y_test, batch_size, num_epochs,
                    n_clusters, params, epoch, batches, total_loss, losses, seen,
                    epochs_seen, test_order, test_embeddings, test_true_labels,
                    kmeans_labels, dbscan_labels, train_results, test_results,
                    saved_model, saved_results, error >>

(* test_embeddings, test_true_labels = get_embeddings(model, test_loader)   *)
(* test_loader does not shuffle (line 77).                                  *)
ExtractTest ==
    /\ pc = "extract_test"
    /\ \E order \in Orders(Len(X_test), FALSE) :
           LET r == get_embeddings(params, X_test, y_test, order, batch_size)
           IN  /\ test_order' = order
               /\ test_embeddings' = r.embeddings
               /\ test_true_labels' = r.labels
    /\ pc' = "eval_train"
    /\ UNCHANGED << X_train, y_train, X_test, y_test, batch_size, num_epochs,
                    n_clusters, params, epoch, batches, total_loss, losses, seen,
                    epochs_seen, train_order, train_embeddings, train_true_labels,
                    kmeans_labels, dbscan_labels, train_results, test_results,
                    saved_model, saved_results, error >>

----------------------------------------------------------------------------
(* evaluate_clustering(embeddings, true_labels, n_clusters)                 *)

Unique(labels) == Range(labels)          \* np.unique(labels)

HasNaN(embeddings) == \E i \in DOMAIN embeddings : embeddings[i] = Encode(NaN, 0)

(* KMeans(n_clusters, random_state=42, n_init=10).fit_predict(embeddings)   *)
(* rejects NaN input and fewer rows than clusters with a ValueError.        *)
KMeansRaises(embeddings, k) == HasNaN(embeddings) \/ Len(embeddings) < k

(* The assignments K-Means can return: identifiers in 0..k-1, equal points  *)
(* in the same cluster, and as many distinct clusters as there are distinct *)
(* points, up to k.                                                         *)
KMeansOutcomes(embeddings, k) ==
    LET points == Range(embeddings)
        centres == { g \in [points -> 0..(k - 1)] :
                       Cardinality(Range(g)) = Min(k, Cardinality(points)) }
    IN  { [i \in DOMAIN embeddings |-> g[embeddings[i]]] : g \in centres }

(* The pairs of distinct points that can lie farther apart than eps.        *)
FarPairs(embeddings) ==
    { pr \in SUBSET Range(embeddings) : Cardinality(pr) = 2 }

(* DBSCAN(eps=3, min_samples=5).fit_predict(embeddings), given the set far  *)
(* of point pairs farther apart than eps.  A point is core when its         *)
(* eps-neighbourhood (itself included) holds min_samples points.  The rows  *)
(* are visited in index order; an unlabelled core row starts the next       *)
(* cluster, which takes every still unlabelled row reachable through core   *)
(* rows; what is never reached stays -1.                                    *)
RECURSIVE Grow(_, _, _)
Grow(S, core, neigh) ==
    LET T == S \cup { j \in core : \E i \in S : j \in neigh[i] }
    IN  IF T = S THEN S ELSE Grow(T, core, neigh)

RECURSIVE DbscanInner(_, _, _, _, _)
DbscanInner(i, labels, label_num, core, neigh) ==
    IF i > Len(labels) THEN labels
    ELSE IF labels[i] # -1 \/ i \notin core
    THEN DbscanInner(i + 1, labels, label_num, core, neigh)
    ELSE LET grown == Grow({i}, core, neigh)
             reached == grown \cup UNION { neigh[c] : c \in grown }
             labelled == [j \in DOMAIN labels |->
                             IF j \in reached /\ labels[j] = -1
                             THEN label_num ELSE labels[j]]
         IN  DbscanInner(i + 1, labelled, label_num + 1, core, neigh)

DBSCAN(embeddings, far) ==
    LET N == DOMAIN embeddings
        neigh == [i \in N |->
                    { j \in N : {embeddings[i], embeddings[j]} \notin far }]
        core == { i \in N : Cardinality(neigh[i]) >= min_samples }
    IN  DbscanInner(1, [j \in N |-> -1], 0, core, neigh)

(* silhouette_score, davies_bouldin_score and calinski_harabasz_score all   *)
(* raise ValueError unless 2 <= number of labels <= number of rows - 1.     *)
ScoreDefined(labels) ==
    /\ Cardinality(Unique(labels)) >= 2
    /\ Cardinality(Unique(labels)) <= Len(labels) - 1

(* np.bincount(v): the occurrence count of every value 0..max(v).           *)
BinCount(v) ==
    LET top == CHOOSE m \in Range(v) : \A x \in Range(v) : x <= m
    IN  [l \in 0..top |-> Cardinality({ i \in DOMAIN v : v[i] = l })]

(* An argmax that would return the last index holding the maximum (C4      *)
(* tells it from numpy's).                                                  *)
ArgMaxLast(a) ==
    CHOOSE i \in DOMAIN a :
        /\ \A j \in DOMAIN a : a[j] <= a[i]
        /\ \A j \in DOMAIN a : j > i => a[j] < a[i]

(* ndarray.argmax(): the first index holding the maximum.                   *)
ArgMax(a) ==
    CHOOSE i \in DOMAIN a :
        /\ \A j \in DOMAIN a : a[j] <= a[i]
        /\ \A j \in DOMAIN a : j < i => a[j] < a[i]

(* mapping[cluster].append(label) over zip(cluster_labels, true_labels):    *)
(* the true labels of the rows of cluster k, in row order.                  *)
RECURSIVE Members(_, _, _)
Members(cluster_labels, true_labels, k) ==
    IF cluster_labels = << >> THEN << >>
    ELSE (IF Head(cluster_labels) = k THEN << Head(true_labels) >> ELSE << >>)
         \o Members(Tail(cluster_labels), Tail(true_labels), k)

(* A mapping that would take the majority over all rows instead of the      *)
(* rows of the cluster (C3 tells it from the code's).                       *)
MappingOfAllRows(cluster_labels, true_labels) ==
    [k \in Unique(cluster_labels) |-> ArgMax(BinCount(true_labels))]

(* calculate_mapping: {k: np.bincount(v).argmax() for k, v in mapping}      *)
calculate_mapping(cluster_labels, true_labels) ==
    [k \in Unique(cluster_labels) |->
        ArgMax(BinCount(Members(cluster_labels, true_labels, k)))]

(* Lines 208-236 for the assignments km and db: None when a score raises,   *)
(* else the returned dictionary.  The K-Means scores are computed           *)
(* unconditionally, the DBSCAN scores when np.unique finds more than one    *)
(* label (the noise label -1 counts as one).                                *)
evaluate_clustering(embeddings, true_labels, km, db) ==
    IF ~ScoreDefined(km) THEN None
    ELSE IF Cardinality(Unique(db)) > 1 /\ ~ScoreDefined(db) THEN None
    ELSE Some([kmeans |-> [labels |-> km, metrics |-> AllMetrics,
                           mapping |-> calculate_mapping(km, true_labels)],
               dbscan |-> [labels |-> db,
                           metrics |-> IF Cardinality(Unique(db)) > 1
                                       THEN AllMetrics ELSE {}]])

(* train_results = evaluate_clustering(train_embeddings, train_true_labels) *)
EvaluateTrain ==
    /\ pc = "eval_train"
    /\ IF KMeansRaises(train_embeddings, n_clusters)
       THEN /\ train_results' = None
            /\ pc' = "failed"
            /\ error' = "ValueError in KMeans"
            /\ UNCHANGED << kmeans_labels, dbscan_labels >>
       ELSE \E km \in KMeansOutcomes(train_embeddings, n_clusters),
               db \in { DBSCAN(train_embeddings, far) :
                            far \in SUBSET FarPairs(train_embeddings) } :
            \E r \in { evaluate_clustering(train_embeddings, train_true_labels,
                                               km, db) } :
                    /\ kmeans_labels' = km
                    /\ dbscan_labels' = db
                    /\ train_results' = r
                    /\ pc' = IF r = None THEN "failed" ELSE "eval_test"
                    /\ error' = IF r = None THEN "ValueError in score" ELSE error
    /\ UNCHANGED << X_train, y_train, X_test, y_test, batch_size, num_epochs,
                    n_clusters, params, epoch, batches, total_loss, losses, seen,
                    epochs_seen, train_order, test_order, train_embeddings,
                    train_true_labels, test_embeddings, test_true_labels,
                    test_results, saved_model, saved_results >>

(* test_results = evaluate_clustering(test_embeddings, test_true_labels)    *)
EvaluateTest ==
    /\ pc = "eval_test"
    /\ IF KMeansRaises(test_embeddings, n_clusters)
       THEN /\ test_results' = None
            /\ pc' = "failed"
            /\ error' = "ValueError in KMeans"
            /\ UNCHANGED << kmeans_labels, dbscan_labels >>
       ELSE \E km \in KMeansOutcomes(test_embeddings, n_clusters),
               db \in { DBSCAN(test_embeddings, far) :
                            far \in SUBSET FarPairs(test_embeddings) } :
            \E r \in { evaluate_clustering(test_embeddings, test_true_labels,
                                               km, db) } :
                    /\ kmeans_labels' = km
                    /\ dbscan_labels' = db
                    /\ test_results' = r
                    /\ pc' = IF r = None THEN "failed" ELSE "report"
                    /\ error' = IF r = None THEN "ValueError in score" ELSE error
    /\ UNCHANGED << X_train, y_train, X_test, y_test, batch_size, num_epochs,
                    n_clusters, params, epoch, batches, total_loss, losses, seen,
                    epochs_seen, train_order, test_order, train_embeddings,
                    train_true_labels, test_embeddings, test_true_labels,
                    train_results, saved_model, saved_results >>

----------------------------------------------------------------------------
(* print_metrics and visualize_clusters read the results and the            *)
(* embeddings; they assign nothing the run keeps.                           *)
Report ==
    /\ pc = "report"
    /\ pc' = "save_model"
    /\ UNCHANGED << X_train, y_train, X_test, y_test, batch_size, num_epochs,
                    n_clusters, params, epoch, batches, total_loss, losses, seen,
                    epochs_seen, train_order, test_order, train_embeddings,
                    train_true_labels, test_embeddings, test_true_labels,
                    kmeans_labels, dbscan_labels, train_results, test_results,
                    saved_model, saved_results, error >>

(* A run that would save the model as soon as training has returned (the   *)
(* code saves last; C10 tells the two apart).                               *)
SaveModelAfterTraining ==
    /\ pc = "extract_train"
    /\ saved_model = None
    /\ saved_model' = Some(params)
    /\ UNCHANGED << X_train, y_train, X_test, y_test, batch_size, num_epochs,
                    n_clusters, params, pc, epoch, batches, total_loss, losses,
                    seen, epochs_seen, train_order, test_order, train_embeddings,
                    train_true_labels, test_embeddings, test_true_labels,
                    kmeans_labels, dbscan_labels, train_results, test_results,
                    saved_results, error >>

(* torch.save(model.state_dict(), 'autoencoder_model.pth')                  *)
SaveModel ==
    /\ pc = "save_model"
    /\ saved_model' = Some(params)
    /\ pc' = "save_results"
    /\ UNCHANGED << X_train, y_train, X_test, y_test, batch_size, num_epochs,
                    n_clusters, params, epoch, batches, total_loss, losses, seen,
                    epochs_seen, train_order, test_order, train_embeddings,
                    train_true_labels, test_embeddings, test_true_labels,
                    kmeans_labels, dbscan_labels, train_results, test_results,
                    saved_results, error >>

(* np.savez('clustering_results.npz', ...)                                  *)
SaveResults ==
    /\ pc = "save_results"
    /\ saved_results' =
           Some([train_embeddings |-> train_embeddings,
                 test_embeddings |-> test_embeddings,
                 train_kmeans_labels |-> train_results[1].kmeans.labels,
                 test_kmeans_labels |-> test_results[1].kmeans.labels,
                 train_dbscan_labels |-> train_results[1].dbscan.labels,
                 test_dbscan_labels |-> test_results[1].dbscan.labels,
                 train_true_labels |-> train_true_labels,
                 test_true_labels |-> test_true_labels])
    /\ pc' = "done"
    /\ UNCHANGED << X_train, y_train, X_test, y_test, batch_size, num_epochs,
                    n_clusters, params, epoch, batches, total_loss, losses, seen,
                    epochs_seen, train_order, test_order, train_embeddings,
                    train_true_labels, test_embeddings, test_true_labels,
                    kmeans_labels, dbscan_labels, train_results, test_results,
                    saved_model, error >>

----------------------------------------------------------------------------
(* The state before anything has run, but for the data and the settings.    *)
Fresh ==
    /\ params = 0
    /\ epoch = 0
    /\ batches = << >>
    /\ total_loss = 0
    /\ losses = << >>
    /\ seen = [wsum |-> 0, rows |-> 0]
    /\ epochs_seen = << >>
    /\ train_order = << >>
    /\ test_order = << >>
    /\ train_embeddings = << >>
    /\ train_true_labels = << >>
    /\ test_embeddings = << >>
    /\ test_true_labels = << >>
    /\ kmeans_labels = << >>
    /\ dbscan_labels = << >>
    /\ train_results = None
    /\ test_results = None
    /\ saved_model = None
    /\ saved_results = None
    /\ error = ""

(* A split of n rows whose features alternate and whose labels cycle.      *)
Pattern(n, m, shift) == [i \in 1..n |-> (i + shift) % m]

(* The whole run, from the prepared splits to the saved files.              *)
Init ==
    /\ X_train = Pattern(RunRows, 2, 0)
    /\ y_train = Pattern(RunRows, MaxLabel + 1, 0)
    /\ X_test = Pattern(RunRows, 2, 1)
    /\ y_test = Pattern(RunRows, MaxLabel + 1, 1)
    /\ batch_size \in 1..MaxBatchSize
    /\ num_epochs \in 1..RunEpochs
    /\ n_clusters \in 2..MaxClusters
    /\ pc = "train"
    /\ Fresh

Next ==
    \/ TrainEpochBegin
    \/ TrainBatch
    \/ TrainEpochEnd
    \/ TrainReturn
    \/ ExtractTrain
    \/ ExtractTest
    \/ EvaluateTrain
    \/ EvaluateTest
    \/ Report
    \/ SaveModel
    \/ SaveResults

Spec == Init /\ [][Next]_vars

(* train_autoencoder on a train split of any size up to TrainRows, any      *)
(* batch size and any epoch count.  The program runs one statement after    *)
(* another, so a step that can be taken is taken.                           *)
InitTrain ==
    /\ \E n \in 1..TrainRows :
           /\ X_train = Pattern(n, 2, 0)
           /\ y_train = Pattern(n, MaxLabel + 1, 0)
    /\ X_test = Pattern(1, 2, 0)
    /\ y_test = Pattern(1, MaxLabel + 1, 0)
    /\ batch_size \in 1..MaxBatchSize
    /\ num_epochs \in 1..MaxEpochs
    /\ n_clusters = 2
    /\ pc = "train"
    /\ Fresh

NextTrain ==
    \/ TrainEpochBegin
    \/ TrainBatch
    \/ TrainEpochEnd
    \/ TrainReturn

SpecTrain == InitTrain /\ [][NextTrain]_vars /\ WF_vars(NextTrain)

(* The locals train_autoencoder leaves after one epoch over the train       *)
(* split that ended with parameters p: NaN after a NaN loss, else the       *)
(* number of batches, every batch loss having been 0.                       *)
Trained(p) ==
    /\ num_epochs = 1
    /\ params = p
    /\ epoch = 1
    /\ batches = << >>
    /\ total_loss = (IF p = NaN THEN NaN ELSE 0)
    /\ losses = << [num |-> total_loss,
                    den |-> LenLoader(Len(X_train), batch_size)] >>
    /\ seen = [wsum |-> total_loss, rows |-> Len(X_train)]
    /\ epochs_seen = << seen >>

(* get_embeddings over a shuffling and a non-shuffling loader, on any data  *)
(* of ExtractRows rows, with any parameters training can leave behind.      *)
InitExtract ==
    /\ X_train \in [1..ExtractRows -> FeatureVals]
    /\ y_train \in [1..ExtractRows -> Labels]
    /\ X_test = X_train
    /\ y_test = y_train
    /\ batch_size \in 1..MaxBatchSize
    /\ n_clusters = 2
    /\ pc = "extract_train"
    /\ \E p \in {NaN, LenLoader(ExtractRows, batch_size)} : Trained(p)
    /\ train_order = << >>
    /\ test_order = << >>
    /\ train_embeddings = << >>
    /\ train_true_labels = << >>
    /\ test_embeddings = << >>
    /\ test_true_labels = << >>
    /\ kmeans_labels = << >>
    /\ dbscan_labels = << >>
    /\ train_results = None
    /\ test_results = None
    /\ saved_model = None
    /\ saved_results = None
    /\ error = ""

NextExtract ==
    \/ ExtractTrain
    \/ ExtractTest

SpecExtract == InitExtract /\ [][NextExtract]_vars

(* The state evaluate_clustering is called in, for the embeddings rows and  *)
(* labels of a split X, y extracted in row order after one epoch of        *)
(* one-row batches.                                                         *)
Extracted(X, y, k) ==
    /\ X_train = X
    /\ y_train = y
    /\ X_test = Pattern(1, 2, 0)
    /\ y_test = Pattern(1, MaxLabel + 1, 0)
    /\ batch_size = 1
    /\ n_clusters = k
    /\ pc = "eval_train"
    /\ Trained(Len(X))
    /\ train_order = Identity(Len(X))
    /\ train_embeddings = [i \in 1..Len(X) |-> Encode(params, X[i])]
    /\ train_true_labels = y
    /\ test_order = Identity(1)
    /\ test_embeddings = [i \in 1..1 |-> Encode(params, X_test[i])]
    /\ test_true_labels = y_test
    /\ kmeans_labels = << >>
    /\ dbscan_labels = << >>
    /\ train_results = None
    /\ test_results = None
    /\ saved_model = None
    /\ saved_results = None
    /\ error = ""

(* evaluate_clustering on EvalRows rows and any true labels.  The rows are  *)
(* m rows of one point followed by rows of the other (all one point when    *)
(* m = EvalRows); the labels are free per row, so every way the true labels *)
(* can fall into the clusters occurs.                                       *)
InitEval ==
    \E m \in 1..EvalRows, a \in FeatureVals, y \in [1..EvalRows -> Labels],
       k \in 2..MaxClusters :
        Extracted([i \in 1..EvalRows |-> IF i <= m THEN a ELSE 1 - a], y, k)

NextEval == EvaluateTrain

SpecEval == InitEval /\ [][NextEval]_vars

(* evaluate_clustering on a single blob: BlobRows rows that are the same    *)
(* point but for one row o, which is another point.                         *)
InitBlob ==
    \E o \in 1..BlobRows, l0 \in Labels, l1 \in Labels, k \in 2..MaxClusters :
        Extracted([i \in 1..BlobRows |-> IF i = o THEN 1 ELSE 0],
                  [i \in 1..BlobRows |-> IF i = o THEN l1 ELSE l0], k)

SpecBlob == InitBlob /\ [][NextEval]_vars

----------------------------------------------------------------------------
(* Properties.                                                              *)

Distinct(labels) == Cardinality(Unique(labels))

(* The metrics a result must hold for an assignment under the rule "three   *)
(* scores iff at least two distinct identifiers".                           *)
MetricsFor(labels) == IF Distinct(labels) >= 2 THEN AllMetrics ELSE {}

(* How many rows of cluster k carry true label l.                           *)
Count(cluster_labels, true_labels, k, l) ==
    Cardinality({ i \in DOMAIN cluster_labels :
                    cluster_labels[i] = k /\ true_labels[i] = l })

(* C1: for the K-Means and for the DBSCAN assignment alike, the metrics     *)
(* hold the three scores iff the assignment has at least two distinct       *)
(* identifiers, and with fewer the metrics are empty and the call returns   *)
(* without raising.  (Stated for the call on the train embeddings.)         *)
C1_MetricsIffTwoIdentifiers ==
    kmeans_labels # << >> =>
        /\ train_results # None
        /\ train_results[1].kmeans.metrics = MetricsFor(kmeans_labels)
        /\ train_results[1].dbscan.metrics = MetricsFor(dbscan_labels)

(* A degenerate DBSCAN assignment: all noise, or one cluster identifier     *)
(* that holds at least 95% of the rows with every other row noise.          *)
Degenerate(labels) ==
    \/ \A i \in DOMAIN labels : labels[i] = -1
    \/ \E c \in Unique(labels) \ {-1} :
           /\ \A i \in DOMAIN labels : labels[i] \in {c, -1}
           /\ 100 * Cardinality({ i \in DOMAIN labels : labels[i] = c })
                  >= 95 * Len(labels)

(* C2: when DBSCAN's assignment is degenerate, evaluate_clustering does not *)
(* fail, reports empty metrics for it and still returns the assignment.     *)
C2_DegenerateDbscanOmitsMetrics ==
    (dbscan_labels # << >> /\ Degenerate(dbscan_labels)) =>
        /\ train_results # None
        /\ train_results[1].dbscan.metrics = {}
        /\ train_results[1].dbscan.labels = dbscan_labels

(* C3: the mapping has exactly one entry per cluster identifier that occurs *)
(* in the K-Means assignment, and each mapped value is a true label of some *)
(* row of that cluster.                                                     *)
C3_MappingKeysAndValues ==
    train_results # None =>
        LET km == train_results[1].kmeans.labels
            mapping == train_results[1].kmeans.mapping
        IN  /\ DOMAIN mapping = Unique(km)
            /\ \A k \in DOMAIN mapping :
                   \E i \in DOMAIN km :
                       km[i] = k /\ train_true_labels[i] = mapping[k]

(* A result whose mapping had a choice to make: some cluster holds rows of  *)
(* two different true labels.                                               *)
C3_Witness ==
    /\ train_results # None
    /\ \E i, j \in DOMAIN kmeans_labels :
           /\ kmeans_labels[i] = kmeans_labels[j]
           /\ train_true_labels[i] # train_true_labels[j]

(* C4: the mapped label of a cluster has the highest count among the rows   *)
(* of the cluster and is the smallest label with that count; the returned   *)
(* assignments are the ones the algorithms produced.                        *)
C4_MajorityLowestOnTie ==
    train_results # None =>
        LET km == train_results[1].kmeans.labels
            mapping == train_results[1].kmeans.mapping
        IN  /\ \A k \in Unique(km) : \A l \in Labels :
                   /\ Count(km, train_true_labels, k, l)
                          <= Count(km, train_true_labels, k, mapping[k])
                   /\ Count(km, train_true_labels, k, l)
                          = Count(km, train_true_labels, k, mapping[k])
                      => mapping[k] <= l
            /\ km = kmeans_labels
            /\ train_results[1].dbscan.labels = dbscan_labels

(* A result in which two labels tie for the highest count in a cluster.     *)
C4_Witness ==
    /\ train_results # None
    /\ \E k \in Unique(kmeans_labels) : \E l1, l2 \in Labels :
           /\ l1 # l2
           /\ Count(kmeans_labels, train_true_labels, k, l1)
                  = Count(kmeans_labels, train_true_labels, k, l2)
           /\ \A l \in Labels :
                  Count(kmeans_labels, train_true_labels, k, l)
                      <= Count(kmeans_labels, train_true_labels, k, l1)

(* C5: the embeddings of each split are in the split's row order: row i is  *)
(* the latent vector of row i of the split.                                 *)
C5_OriginalRowOrder ==
    /\ train_order # << >> =>
           /\ Len(train_embeddings) = Len(X_train)
           /\ \A i \in DOMAIN X_train :
                  train_embeddings[i] = Encode(params, X_train[i])
    /\ test_order # << >> =>
           /\ Len(test_embeddings) = Len(X_test)
           /\ \A i \in DOMAIN X_test :
                  test_embeddings[i] = Encode(params, X_test[i])

(* One embedding row per input row, each input row once, and the label at   *)
(* position i is the label of the row embedded at position i.               *)
Aligned(X, y, order, embeddings, labels) ==
    /\ Len(embeddings) = Len(X)
    /\ Len(labels) = Len(X)
    /\ Len(order) = Len(X)
    /\ Range(order) = DOMAIN X
    /\ \A i \in DOMAIN X :
           /\ embeddings[i] = Encode(params, X[order[i]])
           /\ labels[i] = y[order[i]]

(* C6: for a shuffling and a non-shuffling loader and any batch size,       *)
(* get_embeddings returns one row per input row, each once, with the label  *)
(* vector aligned to it.                                                    *)
C6_OneRowEachAligned ==
    /\ train_order # << >> =>
           Aligned(X_train, y_train, train_order, train_embeddings, train_true_labels)
    /\ test_order # << >> =>
           Aligned(X_test, y_test, test_order, test_embeddings, test_true_labels)

(* Both splits extracted, the train traversal out of row order, a short     *)
(* last batch, and rows that differ in feature and in label.                *)
C6_Witness ==
    /\ pc = "eval_train"
    /\ train_order # Identity(Len(X_train))
    /\ batch_size > 1
    /\ Len(X_train) % batch_size # 0
    /\ params # NaN
    /\ Cardinality(Range(X_train)) > 1
    /\ Cardinality(Range(y_train)) > 1

(* What holds of the loss list at every point of training.                  *)
LossesInStep ==
    /\ Len(losses) = epoch
    /\ Len(epochs_seen) = epoch
    /\ epoch <= num_epochs
    /\ \A e \in 1..Len(epochs_seen) : epochs_seen[e].rows = Len(X_train)
    /\ pc = "extract_train" => Len(losses) = num_epochs

(* The loss list changes only by one append, made when the epoch's batches  *)
(* are exhausted.                                                           *)
AppendAtEpochEnd ==
    losses' # losses =>
        /\ pc = "batch"
        /\ batches = << >>
        /\ seen.rows = Len(X_train)
        /\ Len(losses') = Len(losses) + 1
        /\ SubSeq(losses', 1, Len(losses)) = losses
        /\ epoch' = epoch + 1

(* C7: train_autoencoder runs every configured epoch and returns a loss     *)
(* list with one entry per epoch, in epoch order, each appended after all   *)
(* the batches of its epoch; and it does return.                            *)
C7_RunsEveryEpoch ==
    /\ []LossesInStep
    /\ [][AppendAtEpochEnd]_vars
    /\ <>(pc = "extract_train")

(* Training has returned after more than one epoch of more than one batch.  *)
C7_Witness ==
    /\ pc = "extract_train"
    /\ num_epochs > 1
    /\ Len(losses) = num_epochs
    /\ LenLoader(Len(X_train), batch_size) > 1

(* A batch loss has been non-finite.                                        *)
NonFiniteLossSeen ==
    \/ total_loss = NaN
    \/ \E e \in DOMAIN losses : losses[e].num = NaN

(* C8: once a batch loss is non-finite the run has stopped with a fatal     *)
(* error: nothing is trained after it, no later stage runs, and no loss     *)
(* list holding a non-finite value is returned.                             *)
C8_StopsOnNonFiniteLoss ==
    NonFiniteLossSeen => pc = "failed"

(* C9: the loss recorded for an epoch is the batch-size-weighted average of *)
(* its batch losses: sum(loss * rows) / total rows.                         *)
C9_WeightedAverage ==
    \A e \in DOMAIN losses :
        losses[e].num # NaN =>
            losses[e].num * epochs_seen[e].rows
                = epochs_seen[e].wsum * losses[e].den

(* Where the files stand at every point of the run.                         *)
FilesAfterAllStages ==
    /\ saved_model # None =>
           /\ saved_model = Some(params)
           /\ pc \in {"save_results", "done"}
           /\ Len(losses) = num_epochs
           /\ train_order # << >> /\ test_order # << >>
           /\ train_results # None /\ test_results # None
    /\ saved_results # None => (pc = "done" /\ saved_model # None)
    /\ pc = "failed" => (saved_model = None /\ saved_results = None)

(* The parameters change only in a batch update of training.                *)
ParamsChangeOnlyInTraining ==
    params' # params => (pc = "batch" /\ batches # << >> /\ pc' = "batch")

(* C10: the parameters change only inside the batch updates of training,    *)
(* so the saved parameters are those training returned with, and the files  *)
(* are written only after training, both extractions and both evaluations;  *)
(* a run that failed earlier has written no file.                           *)
C10_ParamsFrozenFilesLast ==
    /\ []FilesAfterAllStages
    /\ [][ParamsChangeOnlyInTraining]_vars

(* The run is done, with trained parameters and both files written.         *)
C10_Witness ==
    /\ pc = "done"
    /\ params > 0
    /\ saved_model = Some(params)
    /\ saved_results # None

====
